---------------------------- MODULE Spec2Model ----------------------------
(***************************************************************************)
(* A model of copycheck.py: tokenisation (to_list), word interning         *)
(* (match_verbatim), the sliding-frame matcher (search_arrays), quote      *)
(* detection (match_quotes), mask composition (layer_masks), highlighting  *)
(* (highlight_text) and the driver format_text.                            *)
(*                                                                         *)
(* A text is a sequence of characters, a character a string: a printable   *)
(* ASCII character, tab, line feed, form feed and carriage return are      *)
(* themselves; the characters the source names are spelled "LDQUO"         *)
(* (U+201C), "RDQUO" (U+201D), "LSQUO" (U+2018), "RSQUO" (U+2019),         *)
(* "EMDASH" (U+2014), "ENDASH" (U+2013) and "ESC" (\033); every other      *)
(* character is spelled by its code point, "U+000B" the vertical tab,      *)
(* "U+00A0" the no-break space, "U+00C9" and "U+00E9" the capital and the  *)
(* small e with acute.                                                     *)
(* A NumPy 1-D array is a sequence; index i of the source is index i+1     *)
(* here.  A function that can raise returns a record whose field error     *)
(* names the exception ("" when it returns normally).                      *)
(***************************************************************************)
EXTENDS Integers, Sequences, FiniteSets

VARIABLES
    pc,              \* position of the running call
    r_in, s_in,      \* format_text's raw texts; s_in is also the text given to to_list / match_quotes
    frame,           \* frame size
    get_quotes,      \* format_text's get_quotes flag
    r_tokens,        \* the list object to_list(reference) made
    s_tokens,        \* the list object to_list(sample) made (highlight_text's caller-owned list)
    reference_nums,  \* integer ids of the reference tokens
    sample_nums,     \* integer ids of the sample tokens
    r_match_mask,    \* reference mask
    s_match_mask,    \* sample mask
    quote_mask,      \* match_quotes' mask
    matches, quotes, \* layer_masks' two results
    colors,          \* the three colour names given to format_text
    ret              \* what the call returned or raised

vars == <<pc, r_in, s_in, frame, get_quotes, r_tokens, s_tokens, reference_nums,
          sample_nums, r_match_mask, s_match_mask, quote_mask, matches, quotes, colors,
          ret>>

(***************************************************************************)
(* Bounds of the model.                                                    *)
(***************************************************************************)
MaxTextLen == 5      \* characters of a text given to to_list / match_quotes
MaxIds == 4          \* length of an id sequence given to search_arrays
MaxFrame == 4        \* largest frame size given to search_arrays
MaxMask == 3         \* length of a mask given to layer_masks / highlight_text
MaxTokens == 3       \* length of a token list given to match_verbatim
MaxFormatLen == 4    \* characters of a sample text given to format_text
MaxReferenceLen == 3 \* characters of a reference text given to format_text
MaxFormatFrame == 2  \* largest frame size given to format_text

(***************************************************************************)
(* Characters and the regular-expression classes the source uses.  The     *)
(* patterns are str patterns, so Python matches \s and \w by the Unicode   *)
(* character properties, and str.lower() lowers by the Unicode case map.   *)
(* The characters of the model are those of U+0000..U+00FF, the Unicode    *)
(* white space beyond them, and the quotation marks and dashes the source  *)
(* names; on these, lower() of a string is lower() of each character.      *)
(***************************************************************************)
\* the characters c with c.lower() # c, and below them their c.lower()
UpperCase == <<"A","B","C","D","E","F","G","H","I","J","K","L","M","N","O",
               "P","Q","R","S","T","U","V","W","X","Y","Z","U+00C0","U+00C1",
               "U+00C2","U+00C3","U+00C4","U+00C5","U+00C6","U+00C7",
               "U+00C8","U+00C9","U+00CA","U+00CB","U+00CC","U+00CD",
               "U+00CE","U+00CF","U+00D0","U+00D1","U+00D2","U+00D3",
               "U+00D4","U+00D5","U+00D6","U+00D8","U+00D9","U+00DA",
               "U+00DB","U+00DC","U+00DD","U+00DE">>
LowerCase == <<"a","b","c","d","e","f","g","h","i","j","k","l","m","n","o",
               "p","q","r","s","t","u","v","w","x","y","z","U+00E0","U+00E1",
               "U+00E2","U+00E3","U+00E4","U+00E5","U+00E6","U+00E7",
               "U+00E8","U+00E9","U+00EA","U+00EB","U+00EC","U+00ED",
               "U+00EE","U+00EF","U+00F0","U+00F1","U+00F2","U+00F3",
               "U+00F4","U+00F5","U+00F6","U+00F8","U+00F9","U+00FA",
               "U+00FB","U+00FC","U+00FD","U+00FE">>
\* the letters that str.lower() leaves alone: U+00AA, U+00B5, U+00BA, U+00DF, U+00FF
Uncased == {"U+00AA","U+00B5","U+00BA","U+00DF","U+00FF"}
\* the decimal digits and the other numeric characters: superscripts, fractions
Digits == {"0","1","2","3","4","5","6","7","8","9","U+00B2","U+00B3",
           "U+00B9","U+00BC","U+00BD","U+00BE"}
\* the characters \s matches
WhiteSpace == {"\t","\n","U+000B","\f","\r","U+001C","U+001D","U+001E",
               "U+001F"," ","U+0085","U+00A0","U+1680","U+2000","U+2001",
               "U+2002","U+2003","U+2004","U+2005","U+2006","U+2007",
               "U+2008","U+2009","U+200A","U+2028","U+2029","U+202F",
               "U+205F","U+3000"}
Range(s) == {s[i] : i \in DOMAIN s}

\* \s
IsSpace(c) == c \in WhiteSpace
\* [\s EMDASH ENDASH -]
IsSplit(c) == IsSpace(c) \/ c \in {"EMDASH", "ENDASH", "-"}
\* the characters \w matches
WordChars == Range(LowerCase) \cup Range(UpperCase) \cup Uncased \cup Digits \cup {"_"}
\* \w
IsWord(c) == c \in WordChars
\* the case map of str.lower(), on the characters it changes
CaseMap ==
    [c \in Range(UpperCase) |-> LowerCase[CHOOSE i \in DOMAIN UpperCase : UpperCase[i] = c]]
\* str.lower() of one character
lower(c) == IF c \in DOMAIN CaseMap THEN CaseMap[c] ELSE c

\* ''.join(list)
RECURSIVE join(_)
join(list) == IF list = <<>> THEN <<>> ELSE Head(list) \o join(Tail(list))

\* The sequences over S of length at most n.
SeqUpTo(S, n) == UNION {[1..m -> S] : m \in 0..n}

process_text(text) ==
    [i \in DOMAIN text |->
        IF text[i] \in {"LDQUO", "RDQUO"} THEN "\""
        ELSE IF text[i] \in {"LSQUO", "RSQUO"} THEN "'"
        ELSE text[i]]

(***************************************************************************)
(* re.split('([\s EMDASH ENDASH -]+)', text): the pieces between the       *)
(* separator runs and the runs themselves, alternating, the first and the  *)
(* last piece possibly empty.                                              *)
(***************************************************************************)
RECURSIVE re_split_from(_, _, _, _, _)
re_split_from(text, i, cur, out, inSep) ==
    IF i > Len(text)
    THEN IF inSep THEN out \o <<cur, <<>>>> ELSE out \o <<cur>>
    ELSE IF IsSplit(text[i]) = inSep
         THEN re_split_from(text, i + 1, Append(cur, text[i]), out, inSep)
         ELSE re_split_from(text, i + 1, <<text[i]>>, Append(out, cur), ~inSep)

re_split(text) == re_split_from(text, 1, <<>>, <<>>, FALSE)

\* re.search('\w', s)
has_word(s) == \E i \in DOMAIN s : IsWord(s[i])

\* pair_up with the trailing separator dropped instead of joined to the last pair.
RECURSIVE pair_up_drop(_, _, _)
pair_up_drop(tokens, i, paired) ==
    IF i >= Len(tokens) THEN paired
    ELSE IF i + 1 < Len(tokens)
         THEN pair_up_drop(tokens, i + 2, Append(paired, tokens[i + 1] \o tokens[i + 2]))
         ELSE IF has_word(tokens[Len(tokens)])
              THEN pair_up_drop(tokens, i + 2, Append(paired, tokens[Len(tokens)]))
              ELSE pair_up_drop(tokens, i + 2, paired)

\* The loop of to_list, from index i (0-based, step 2) with the pairs made so far.
RECURSIVE pair_up(_, _, _)
pair_up(tokens, i, paired) ==
    IF i >= Len(tokens) THEN paired
    ELSE IF i + 1 < Len(tokens)
         THEN pair_up(tokens, i + 2, Append(paired, tokens[i + 1] \o tokens[i + 2]))
         ELSE \* IndexError: tokens[i + 1] does not exist
              IF has_word(tokens[Len(tokens)])
              THEN pair_up(tokens, i + 2, Append(paired, tokens[Len(tokens)]))
              ELSE pair_up(tokens, i + 2,
                           [paired EXCEPT ![Len(paired)] = @ \o tokens[Len(tokens)]])

to_list(text) ==
    LET tokens == SelectSeq(re_split(text), LAMBDA t : t # <<>>)
        token_count == Len(tokens)
    IN  IF token_count = 1 THEN tokens
        ELSE IF token_count > 1 THEN pair_up(tokens, 0, <<>>)
        ELSE <<>>

(***************************************************************************)
(* match_quotes.  The pattern quotation is: a lazy run of non-space        *)
(* characters, a quote mark, a greedy run of characters other than the     *)
(* quote mark (group 1), a quote mark, a greedy run of non-space           *)
(* characters.                                                             *)
(***************************************************************************)
QuoteChar == "\""
QUOTED == <<"_", "q", "u", "o", "t", "e", "d", "_">>

Min(S) == CHOOSE x \in S : \A y \in S : x <= y
Max(S) == CHOOSE x \in S : \A y \in S : x >= y

\* len(re.findall('\"', sample))
count_quotes(sample) == Cardinality({i \in DOMAIN sample : sample[i] = QuoteChar})

\* The lengths l of the lazy non-space prefix at p after which the rest of the
\* pattern matches: a quote mark at p+l and another one after it.
quotation_prefixes(text, p) ==
    {l \in 0..(Len(text) - p) :
        /\ \A j \in p..(p + l - 1) : ~IsSpace(text[j])
        /\ text[p + l] = QuoteChar
        /\ \E q \in (p + l + 1)..Len(text) : text[q] = QuoteChar}

\* The match of quotation that starts at p, if any: the opening and closing
\* marks and the last character the trailing non-space run takes.
quotation_match(text, p) ==
    IF quotation_prefixes(text, p) = {}
    THEN [found |-> FALSE, open |-> 0, close |-> 0, end |-> 0]
    ELSE LET open == p + Min(quotation_prefixes(text, p))
             close == Min({q \in (open + 1)..Len(text) : text[q] = QuoteChar})
             end == Max({e \in close..Len(text) :
                            \A j \in (close + 1)..e : ~IsSpace(text[j])})
         IN  [found |-> TRUE, open |-> open, close |-> close, end |-> end]

\* '_quoted_ ' * n
RECURSIVE quoted_times(_)
quoted_times(n) == IF n <= 0 THEN <<>> ELSE QUOTED \o <<" ">> \o quoted_times(n - 1)

\* re.sub(quotation, lambda m: '_quoted_ ' * len(to_list(m.group(1))), sample), from p on.
RECURSIVE re_sub_quotation(_, _, _)
re_sub_quotation(text, p, out) ==
    IF p > Len(text) THEN out
    ELSE LET m == quotation_match(text, p)
         IN  IF m.found
             THEN re_sub_quotation(text, m.end + 1,
                      out \o quoted_times(Len(to_list(SubSeq(text, m.open + 1, m.close - 1)))))
             ELSE re_sub_quotation(text, p + 1, Append(out, text[p]))

\* r.search(x) for r = re.compile('_quoted_')
search_quoted(x) ==
    \E i \in 1..(Len(x) - Len(QUOTED) + 1) : SubSeq(x, i, i + Len(QUOTED) - 1) = QUOTED

match_quotes(sample) ==
    IF count_quotes(sample) % 2 = 0
    THEN LET quotes_found == re_sub_quotation(sample, 1, <<>>)
             found_list == to_list(quotes_found)
         IN  IF found_list = <<>>
             THEN \* np.vectorize refuses an input of size 0
                  [error |-> "ValueError", mask |-> <<>>]
             ELSE [error |-> "",
                   mask |-> [i \in DOMAIN found_list |-> search_quoted(found_list[i])]]
    ELSE [error |-> "", mask |-> [i \in 1..Len(to_list(sample)) |-> FALSE]]

(***************************************************************************)
(* search_arrays.                                                          *)
(***************************************************************************)
\* sliding_frames without the last frame (np.arange(size - frame_size)).
sliding_frames_short(arr, frame_size) ==
    [i \in 1..(Len(arr) - frame_size) |-> [d \in 1..frame_size |-> arr[i + d - 1]]]

\* arr[np.expand_dims(np.arange(size - frame_size + 1), ...) + frame_range]
sliding_frames(arr, frame_size) ==
    [i \in 1..(Len(arr) - frame_size + 1) |-> [d \in 1..frame_size |-> arr[i + d - 1]]]

\* frame_matches with .any(2) in place of .all(2).
frame_matches_any(reference_frames, sample_frames) ==
    [i \in DOMAIN sample_frames |->
        [j \in DOMAIN reference_frames |->
            \E d \in DOMAIN sample_frames[i] : reference_frames[j][d] = sample_frames[i][d]]]

\* (reference_frames == sample_frames).all(2): one row per sample frame
frame_matches(reference_frames, sample_frames) ==
    [i \in DOMAIN sample_frames |->
        [j \in DOMAIN reference_frames |->
            \A d \in DOMAIN sample_frames[i] : reference_frames[j][d] = sample_frames[i][d]]]

any_all(m) == \E i \in DOMAIN m : \E j \in DOMAIN m[i] : m[i][j]
\* matches.any(0) of a matrix with ncols columns
any_axis0(m, ncols) == [j \in 1..ncols |-> \E i \in DOMAIN m : m[i][j]]
\* matches.any(1)
any_axis1(m) == [i \in DOMAIN m |-> \E j \in DOMAIN m[i] : m[i][j]]

RECURSIVE sum_to(_, _)
sum_to(f, n) == IF n <= 0 THEN 0 ELSE f[n] + sum_to(f, n - 1)

\* np.convolve(a, v) in its default mode 'full', a boolean and v integer
convolve(a, v) ==
    [t \in 1..(Len(a) + Len(v) - 1) |->
        sum_to([j \in 1..Len(a) |->
                   IF t - j + 1 \in DOMAIN v /\ a[j] THEN v[t - j + 1] ELSE 0], Len(a))]

np_full(size, value) == [i \in 1..size |-> value]

search_arrays(reference_list, sample_list, frame_size_int) ==
    LET sample_frames == sliding_frames(sample_list, frame_size_int)
        reference_frames == sliding_frames(reference_list, frame_size_int)
        m == frame_matches(reference_frames, sample_frames)
        ones == np_full(frame_size_int, 1)
    IN  IF any_all(m)
        THEN [reference_mask |->
                 [t \in 1..(Len(reference_frames) + frame_size_int - 1) |->
                     convolve(any_axis0(m, Len(reference_frames)), ones)[t] > 0],
              sample_mask |->
                 [t \in 1..(Len(sample_frames) + frame_size_int - 1) |->
                     convolve(any_axis1(m), ones)[t] > 0]]
        ELSE [reference_mask |-> np_full(Len(reference_list), FALSE),
              sample_mask |-> np_full(Len(sample_list), FALSE)]

(***************************************************************************)
(* match_verbatim.                                                         *)
(***************************************************************************)
\* re.sub of every character that is neither a word character nor an
\* apostrophe by '', on token.lower()
comparison_key(token) ==
    SelectSeq([i \in DOMAIN token |-> lower(token[i])], LAMBDA c : IsWord(c) \/ c = "'")

\* The loop over the reference: word2num maps a key to the index of its first
\* occurrence (word2num.get(word, index)); index counts from 0.
RECURSIVE intern_reference(_, _, _, _)
intern_reference(reference, index, word2num, nums) ==
    IF index >= Len(reference) THEN [word2num |-> word2num, nums |-> nums]
    ELSE LET word == comparison_key(reference[index + 1])
             dict == [w \in DOMAIN word2num \cup {word} |->
                         IF w \in DOMAIN word2num THEN word2num[w] ELSE index]
         IN  intern_reference(reference, index + 1, dict, Append(nums, dict[word]))

EmptyDict == [w \in {} |-> 0]

reference_ids(reference) == intern_reference(reference, 0, EmptyDict, <<>>).nums

\* sample_ids with 0 in place of -1 for a key the dictionary lacks.
sample_ids_zero(reference, sample) ==
    LET word2num == intern_reference(reference, 0, EmptyDict, <<>>).word2num
    IN  [i \in DOMAIN sample |->
            IF comparison_key(sample[i]) \in DOMAIN word2num
            THEN word2num[comparison_key(sample[i])]
            ELSE 0]

\* The loop over the sample: a key the dictionary lacks (KeyError) gets -1.
sample_ids(reference, sample) ==
    LET word2num == intern_reference(reference, 0, EmptyDict, <<>>).word2num
    IN  [i \in DOMAIN sample |->
            IF comparison_key(sample[i]) \in DOMAIN word2num
            THEN word2num[comparison_key(sample[i])]
            ELSE -1]

match_verbatim(reference, sample, frame_size) ==
    search_arrays(reference_ids(reference), sample_ids(reference, sample), frame_size)

(***************************************************************************)
(* layer_masks.  np.logical_and broadcasts: two 1-D operands of the same   *)
(* length combine elementwise, an operand of length 1 is repeated to the   *)
(* other's length, and any other pair of lengths raises ValueError.        *)
(***************************************************************************)
broadcastable(a, b) == Len(a) = Len(b) \/ Len(a) = 1 \/ Len(b) = 1

broadcast_len(a, b) == IF Len(a) = 1 THEN Len(b) ELSE Len(a)

broadcast_at(a, i) == IF Len(a) = 1 THEN a[1] ELSE a[i]

logical_and(a, b) == [i \in 1..broadcast_len(a, b) |-> broadcast_at(a, i) /\ broadcast_at(b, i)]

\* logical_not left out.
logical_not_same(a) == a

logical_not(a) == [i \in DOMAIN a |-> ~a[i]]

layer_masks(m, q) ==
    IF broadcastable(m, q)
    THEN [error |-> "", m_q |-> logical_and(m, logical_not(q)), mq |-> logical_and(m, q)]
    ELSE [error |-> "ValueError", m_q |-> <<>>, mq |-> <<>>]

(***************************************************************************)
(* get_color and highlight_text.                                           *)
(***************************************************************************)
color_code(color) ==
    IF color = "red" THEN "1"
    ELSE IF color = "green" THEN "2"
    ELSE IF color = "yellow" THEN "3"
    ELSE IF color = "blue" THEN "4"
    ELSE IF color = "magenta" THEN "5"
    ELSE IF color = "cyan" THEN "6"
    ELSE "7"

get_color(color) ==
    [start |-> <<"ESC", "[", "4", color_code(color), ";", "1", "m">>,
     stop |-> <<"ESC", "[", "0", "m">>]

\* np.pad(mask, (1,), 'constant', constant_values=False)
np_pad(mask) == <<FALSE>> \o mask \o <<FALSE>>

\* The 0-based indices where the padded mask goes from False to True
start_indices(mask) ==
    {i \in 0..Len(mask) : ~np_pad(mask)[i + 1] /\ np_pad(mask)[i + 2]}

\* stop_indices without the "- 1".
stop_indices_no_shift(mask) ==
    {j \in 0..Len(mask) : np_pad(mask)[j + 1] /\ ~np_pad(mask)[j + 2]}

\* The 0-based indices where it goes from True to False, less one
stop_indices(mask) ==
    {i - 1 : i \in {j \in 0..Len(mask) : np_pad(mask)[j + 1] /\ ~np_pad(mask)[j + 2]}}

\* The list after the first loop: every start index the list has is marked
\* (the indices ascend, so the ones before an IndexError are done).
mark_starts(mask, text, color) ==
    [t \in DOMAIN text |->
        IF (t - 1) \in start_indices(mask) THEN get_color(color).start \o text[t] ELSE text[t]]

mark_stops(mask, text, color) ==
    [t \in DOMAIN text |->
        IF (t - 1) \in stop_indices(mask) THEN text[t] \o get_color(color).stop ELSE text[t]]

\* highlight_text assigns into the list it is given and returns that list:
\* field text is the list object's content when the call ends.
highlight_text(mask, text, color) ==
    IF \E i \in start_indices(mask) : i >= Len(text)
    THEN [error |-> "IndexError", text |-> mark_starts(mask, text, color)]
    ELSE IF \E i \in stop_indices(mask) : i >= Len(text)
    THEN [error |-> "IndexError",
          text |-> mark_stops(mask, mark_starts(mask, text, color), color)]
    ELSE [error |-> "", text |-> mark_stops(mask, mark_starts(mask, text, color), color)]

(***************************************************************************)
(* format_text as a function of its arguments.                             *)
(***************************************************************************)
\* .size in place of .any()
np_any_size(mask) == Len(mask) > 0

np_any(mask) == \E i \in DOMAIN mask : mask[i]

FormatNone == [error |-> "", none |-> TRUE, r_out |-> <<>>, s_out |-> <<>>]
FormatRaised(e) == [error |-> e, none |-> FALSE, r_out |-> <<>>, s_out |-> <<>>]

\* match_quotes(sample) if get_quotes else np.full(s_match_mask.size, False)
quote_mask_for(sample, s_mask, want_quotes) ==
    IF want_quotes THEN match_quotes(sample)
    ELSE [error |-> "", mask |-> np_full(Len(s_mask), FALSE)]

format_text(r, s, frame_size, want_quotes, reference_color, sample_color, quote_color) ==
    LET reference == process_text(r)
        sample == process_text(s)
        masks == match_verbatim(to_list(reference), to_list(sample), frame_size)
        r_hl == highlight_text(masks.reference_mask, to_list(reference), reference_color)
        q == quote_mask_for(sample, masks.sample_mask, want_quotes)
        layered == layer_masks(masks.sample_mask, q.mask)
        s_hl == highlight_text(layered.m_q, to_list(sample), sample_color)
        q_hl == highlight_text(layered.mq, s_hl.text, quote_color)
    IN  IF ~(np_any(masks.reference_mask) /\ np_any(masks.reference_mask)) THEN FormatNone
        ELSE IF r_hl.error # "" THEN FormatRaised(r_hl.error)
        ELSE IF q.error # "" THEN FormatRaised(q.error)
        ELSE IF layered.error # "" THEN FormatRaised(layered.error)
        ELSE IF s_hl.error # "" THEN FormatRaised(s_hl.error)
        ELSE IF q_hl.error # "" THEN FormatRaised(q_hl.error)
        ELSE [error |-> "", none |-> FALSE, r_out |-> join(r_hl.text), s_out |-> join(q_hl.text)]

(***************************************************************************)
(* The steps of format_text.                                               *)
(***************************************************************************)
NoResult == [error |-> "", none |-> FALSE, r_out |-> <<>>, s_out |-> <<>>]

\* lines 308-309
Tokenize ==
    /\ pc = "tokenize"
    /\ r_tokens' = to_list(process_text(r_in))
    /\ s_tokens' = to_list(process_text(s_in))
    /\ pc' = "intern"
    /\ UNCHANGED <<r_in, s_in, frame, get_quotes, reference_nums, sample_nums,
                   r_match_mask, s_match_mask, quote_mask, matches, quotes, colors, ret>>

\* match_verbatim, lines 206-221
InternWords ==
    /\ pc = "intern"
    /\ reference_nums' = reference_ids(r_tokens)
    /\ sample_nums' = sample_ids(r_tokens, s_tokens)
    /\ pc' = "search_arrays"
    /\ UNCHANGED <<r_in, s_in, frame, get_quotes, r_tokens, s_tokens,
                   r_match_mask, s_match_mask, quote_mask, matches, quotes, colors, ret>>

\* match_verbatim, lines 224-226
SearchArrays ==
    /\ pc = "search_arrays"
    /\ r_match_mask' = search_arrays(reference_nums, sample_nums, frame).reference_mask
    /\ s_match_mask' = search_arrays(reference_nums, sample_nums, frame).sample_mask
    /\ pc' = "test"
    /\ UNCHANGED <<r_in, s_in, frame, get_quotes, r_tokens, s_tokens, reference_nums,
                   sample_nums, quote_mask, matches, quotes, colors, ret>>

\* lines 314, 330-331
ReturnNone ==
    /\ pc = "test"
    /\ ~(np_any(r_match_mask) /\ np_any(r_match_mask))
    /\ ret' = FormatNone
    /\ pc' = "done"
    /\ UNCHANGED <<r_in, s_in, frame, get_quotes, r_tokens, s_tokens, reference_nums,
                   sample_nums, r_match_mask, s_match_mask, quote_mask, matches, quotes,
                   colors>>

\* lines 314, 318: r_out is the list r_tokens itself
HighlightReference ==
    /\ pc = "test"
    /\ np_any(r_match_mask) /\ np_any(r_match_mask)
    /\ LET h == highlight_text(r_match_mask, r_tokens, colors.reference)
       IN  /\ r_tokens' = h.text
           /\ pc' = IF h.error = "" THEN "match_quotes" ELSE "raised"
           /\ ret' = IF h.error = "" THEN ret ELSE FormatRaised(h.error)
    /\ UNCHANGED <<r_in, s_in, frame, get_quotes, s_tokens, reference_nums, sample_nums,
                   r_match_mask, s_match_mask, quote_mask, matches, quotes, colors>>

\* line 321
MatchQuotes ==
    /\ pc = "match_quotes"
    /\ LET q == quote_mask_for(process_text(s_in), s_match_mask, get_quotes)
       IN  /\ quote_mask' = q.mask
           /\ pc' = IF q.error = "" THEN "layer_masks" ELSE "raised"
           /\ ret' = IF q.error = "" THEN ret ELSE FormatRaised(q.error)
    /\ UNCHANGED <<r_in, s_in, frame, get_quotes, r_tokens, s_tokens, reference_nums,
                   sample_nums, r_match_mask, s_match_mask, matches, quotes, colors>>

\* line 324
LayerMasks ==
    /\ pc = "layer_masks"
    /\ LET l == layer_masks(s_match_mask, quote_mask)
       IN  /\ matches' = l.m_q
           /\ quotes' = l.mq
           /\ pc' = IF l.error = "" THEN "highlight_sample" ELSE "raised"
           /\ ret' = IF l.error = "" THEN ret ELSE FormatRaised(l.error)
    /\ UNCHANGED <<r_in, s_in, frame, get_quotes, r_tokens, s_tokens, reference_nums,
                   sample_nums, r_match_mask, s_match_mask, quote_mask, colors>>

\* line 326: s_out is the list s_tokens itself
HighlightSample ==
    /\ pc = "highlight_sample"
    /\ LET h == highlight_text(matches, s_tokens, colors.sample)
       IN  /\ s_tokens' = h.text
           /\ pc' = IF h.error = "" THEN "highlight_quotes" ELSE "raised"
           /\ ret' = IF h.error = "" THEN ret ELSE FormatRaised(h.error)
    /\ UNCHANGED <<r_in, s_in, frame, get_quotes, r_tokens, reference_nums, sample_nums,
                   r_match_mask, s_match_mask, quote_mask, matches, quotes, colors>>

\* line 327
HighlightQuotes ==
    /\ pc = "highlight_quotes"
    /\ LET h == highlight_text(quotes, s_tokens, colors.quote)
       IN  /\ s_tokens' = h.text
           /\ pc' = IF h.error = "" THEN "return" ELSE "raised"
           /\ ret' = IF h.error = "" THEN ret ELSE FormatRaised(h.error)
    /\ UNCHANGED <<r_in, s_in, frame, get_quotes, r_tokens, reference_nums, sample_nums,
                   r_match_mask, s_match_mask, quote_mask, matches, quotes, colors>>

\* line 329
Return ==
    /\ pc = "return"
    /\ ret' = [error |-> "", none |-> FALSE, r_out |-> join(r_tokens), s_out |-> join(s_tokens)]
    /\ pc' = "done"
    /\ UNCHANGED <<r_in, s_in, frame, get_quotes, r_tokens, s_tokens, reference_nums,
                   sample_nums, r_match_mask, s_match_mask, quote_mask, matches, quotes,
                   colors>>

(***************************************************************************)
(* Direct calls of to_list and match_quotes on a text.                     *)
(***************************************************************************)
CallToList ==
    /\ pc = "to_list"
    /\ s_tokens' = to_list(s_in)
    /\ pc' = "match_quotes"
    /\ UNCHANGED <<r_in, s_in, frame, get_quotes, r_tokens, reference_nums, sample_nums,
                   r_match_mask, s_match_mask, quote_mask, matches, quotes, colors, ret>>

CallMatchQuotes ==
    /\ pc = "match_quotes"
    /\ quote_mask' = match_quotes(s_in).mask
    /\ ret' = match_quotes(s_in)
    /\ pc' = "done"
    /\ UNCHANGED <<r_in, s_in, frame, get_quotes, r_tokens, s_tokens, reference_nums,
                   sample_nums, r_match_mask, s_match_mask, matches, quotes, colors>>

(***************************************************************************)
(* Inputs.                                                                 *)
(***************************************************************************)
\* __main__'s two colour schemes (the quote colour it passes is always "cyan")
ColorSchemes ==
    {[reference |-> "yellow", sample |-> "magenta", quote |-> "cyan"],
     [reference |-> "green", sample |-> "red", quote |-> "cyan"]}
DefaultColors == [reference |-> "yellow", sample |-> "magenta", quote |-> "cyan"]

TextAlphabet == {"a", " ", "-", "\"", ".", "U+00A0", "U+00E9"}
ReferenceAlphabet == {"a", " "}
SampleAlphabet == {"a", " ", "LDQUO"}
ReferenceIds == {0, 1}
SampleIds == {-1, 0, 1}
ReferenceTokens == {<<"a", " ">>, <<"A", ".">>, <<"U+00C9">>}
SampleTokens == {<<"A", ".">>, <<"U+00E9", "U+00A0">>, <<"-">>}
DisplayTokens == {<<"a", " ">>, <<"b">>, <<>>}
Masks(n) == [1..n -> BOOLEAN]

(***************************************************************************)
(* format_text called on two texts.                                        *)
(***************************************************************************)
Init ==
    /\ pc = "tokenize"
    /\ r_in \in SeqUpTo(ReferenceAlphabet, MaxReferenceLen)
    /\ s_in \in SeqUpTo(SampleAlphabet, MaxFormatLen)
    /\ frame \in 1..MaxFormatFrame
    /\ get_quotes \in BOOLEAN
    /\ colors = DefaultColors
    /\ r_tokens = <<>> /\ s_tokens = <<>>
    /\ reference_nums = <<>> /\ sample_nums = <<>>
    /\ r_match_mask = <<>> /\ s_match_mask = <<>>
    /\ quote_mask = <<>> /\ matches = <<>> /\ quotes = <<>>
    /\ ret = NoResult

Next ==
    \/ Tokenize
    \/ InternWords
    \/ SearchArrays
    \/ ReturnNone
    \/ HighlightReference
    \/ MatchQuotes
    \/ LayerMasks
    \/ HighlightSample
    \/ HighlightQuotes
    \/ Return

Spec == Init /\ [][Next]_vars

(***************************************************************************)
(* search_arrays called on two id sequences.                               *)
(***************************************************************************)
InitSearch ==
    /\ pc = "search_arrays"
    /\ reference_nums \in SeqUpTo(ReferenceIds, MaxIds)
    /\ sample_nums \in SeqUpTo(SampleIds, MaxIds)
    /\ frame \in 1..MaxFrame
    /\ r_in = <<>> /\ s_in = <<>> /\ get_quotes = FALSE /\ colors = DefaultColors
    /\ r_tokens = <<>> /\ s_tokens = <<>>
    /\ r_match_mask = <<>> /\ s_match_mask = <<>>
    /\ quote_mask = <<>> /\ matches = <<>> /\ quotes = <<>>
    /\ ret = NoResult

NextSearch == SearchArrays

SpecSearch == InitSearch /\ [][NextSearch]_vars

(***************************************************************************)
(* match_verbatim called on two token lists.                               *)
(***************************************************************************)
InitVerbatim ==
    /\ pc = "intern"
    /\ r_tokens \in SeqUpTo(ReferenceTokens, MaxTokens)
    /\ s_tokens \in SeqUpTo(SampleTokens, MaxTokens)
    /\ frame \in 1..MaxTokens
    /\ r_in = <<>> /\ s_in = <<>> /\ get_quotes = FALSE /\ colors = DefaultColors
    /\ reference_nums = <<>> /\ sample_nums = <<>>
    /\ r_match_mask = <<>> /\ s_match_mask = <<>>
    /\ quote_mask = <<>> /\ matches = <<>> /\ quotes = <<>>
    /\ ret = NoResult

NextVerbatim == InternWords \/ SearchArrays

SpecVerbatim == InitVerbatim /\ [][NextVerbatim]_vars

(***************************************************************************)
(* layer_masks called on two masks of any lengths.                         *)
(***************************************************************************)
InitLayer ==
    /\ pc = "layer_masks"
    /\ s_match_mask \in SeqUpTo(BOOLEAN, MaxMask)
    /\ quote_mask \in SeqUpTo(BOOLEAN, MaxMask)
    /\ r_in = <<>> /\ s_in = <<>> /\ frame = 1 /\ get_quotes = TRUE
    /\ colors = DefaultColors
    /\ r_tokens = <<>> /\ s_tokens = <<>>
    /\ reference_nums = <<>> /\ sample_nums = <<>>
    /\ r_match_mask = <<>> /\ matches = <<>> /\ quotes = <<>>
    /\ ret = NoResult

NextLayer == LayerMasks

SpecLayer == InitLayer /\ [][NextLayer]_vars

(***************************************************************************)
(* highlight_text called twice on one list, as lines 326-327 do, with any  *)
(* two masks of the list's length.                                         *)
(***************************************************************************)
InitHighlight ==
    /\ pc = "highlight_sample"
    /\ s_tokens \in SeqUpTo(DisplayTokens, MaxMask)
    /\ matches \in Masks(Len(s_tokens))
    /\ quotes \in Masks(Len(s_tokens))
    /\ colors \in ColorSchemes
    /\ r_in = <<>> /\ s_in = <<>> /\ frame = 1 /\ get_quotes = TRUE
    /\ r_tokens = <<>>
    /\ reference_nums = <<>> /\ sample_nums = <<>>
    /\ r_match_mask = <<>> /\ s_match_mask = <<>> /\ quote_mask = <<>>
    /\ ret = NoResult

NextHighlight == HighlightSample \/ HighlightQuotes

SpecHighlight == InitHighlight /\ [][NextHighlight]_vars

(***************************************************************************)
(* to_list and match_quotes called on one text.                            *)
(***************************************************************************)
InitTokens ==
    /\ pc = "to_list"
    /\ s_in \in SeqUpTo(TextAlphabet, MaxTextLen)
    /\ r_in = <<>> /\ frame = 1 /\ get_quotes = TRUE /\ colors = DefaultColors
    /\ r_tokens = <<>> /\ s_tokens = <<>>
    /\ reference_nums = <<>> /\ sample_nums = <<>>
    /\ r_match_mask = <<>> /\ s_match_mask = <<>>
    /\ quote_mask = <<>> /\ matches = <<>> /\ quotes = <<>>
    /\ ret = NoResult

NextTokens == CallToList \/ CallMatchQuotes

SpecTokens == InitTokens /\ [][NextTokens]_vars

(***************************************************************************)
(* Properties.                                                             *)
(***************************************************************************)
\* The frame of a that starts at i equals the frame of b that starts at j.
SameFrame(a, i, b, j, k) == \A d \in 0..(k - 1) : a[i + d] = b[j + d]

\* Token t of a lies in a frame of a that equals some frame of b.
InSharedFrame(a, b, k, t) ==
    \E i \in 1..(Len(a) - k + 1) :
        /\ i <= t /\ t <= i + k - 1
        /\ \E j \in 1..(Len(b) - k + 1) : SameFrame(a, i, b, j, k)

CountTrue(mask) == Cardinality({t \in DOMAIN mask : mask[t]})

\* C1: search_arrays returns a reference mask of the reference's length and a
\* sample mask of the sample's length; a token is true exactly when it lies
\* in a frame of its sequence that equals a frame of the other sequence; a
\* frame size above either length gives two all-false masks.
C1_MasksMarkSharedFrames ==
    pc = "test" =>
        /\ Len(r_match_mask) = Len(reference_nums)
        /\ Len(s_match_mask) = Len(sample_nums)
        /\ \A t \in DOMAIN s_match_mask :
               s_match_mask[t] <=> InSharedFrame(sample_nums, reference_nums, frame, t)
        /\ \A t \in DOMAIN r_match_mask :
               r_match_mask[t] <=> InSharedFrame(reference_nums, sample_nums, frame, t)
        /\ (frame > Len(reference_nums) \/ frame > Len(sample_nums)) =>
               /\ \A t \in DOMAIN s_match_mask : ~s_match_mask[t]
               /\ \A t \in DOMAIN r_match_mask : ~r_match_mask[t]

\* Two overlapping matching frames of size 2 give one run of three tokens
\* after an unmatched token.
C1_Witness ==
    /\ pc = "test"
    /\ frame = 2
    /\ s_match_mask = <<FALSE, TRUE, TRUE, TRUE>>
    /\ sample_nums[1] = -1

\* C8: every token search_arrays marks for frame size frame + 1 it also
\* marks for frame size frame, in both masks, so the count of true entries
\* does not grow with the frame size.
C8_LargerFrameMarksNoMore ==
    pc = "test" =>
        LET larger == search_arrays(reference_nums, sample_nums, frame + 1)
        IN  /\ Len(larger.sample_mask) = Len(s_match_mask)
            /\ Len(larger.reference_mask) = Len(r_match_mask)
            /\ \A t \in DOMAIN s_match_mask : larger.sample_mask[t] => s_match_mask[t]
            /\ \A t \in DOMAIN r_match_mask : larger.reference_mask[t] => r_match_mask[t]
            /\ CountTrue(larger.sample_mask) <= CountTrue(s_match_mask)
            /\ CountTrue(larger.reference_mask) <= CountTrue(r_match_mask)

\* A larger frame that still matches, but marks strictly fewer sample tokens.
C8_Witness ==
    /\ pc = "test"
    /\ CountTrue(search_arrays(reference_nums, sample_nums, frame + 1).sample_mask) > 0
    /\ CountTrue(search_arrays(reference_nums, sample_nums, frame + 1).sample_mask)
           < CountTrue(s_match_mask)

\* Sample token t has a comparison key no reference token has.
OutOfVocabulary(t) ==
    \A j \in DOMAIN r_tokens : comparison_key(r_tokens[j]) # comparison_key(s_tokens[t])

\* C3: a sample token whose comparison key no reference token has gets the id
\* -1 and is false in the sample mask match_verbatim returns.
C3_OutOfVocabularyNeverMarked ==
    /\ pc \in {"search_arrays", "test"} =>
           \A t \in DOMAIN s_tokens : OutOfVocabulary(t) => sample_nums[t] = -1
    /\ pc = "test" =>
           /\ Len(s_match_mask) = Len(s_tokens)
           /\ \A t \in DOMAIN s_tokens : OutOfVocabulary(t) => ~s_match_mask[t]

\* Two out-of-vocabulary tokens with different keys stand before a token
\* that does match.
C3_Witness ==
    /\ pc = "test"
    /\ Len(s_tokens) = 3
    /\ OutOfVocabulary(1) /\ OutOfVocabulary(2)
    /\ comparison_key(s_tokens[1]) # comparison_key(s_tokens[2])
    /\ s_match_mask = <<FALSE, FALSE, TRUE>>

\* C2: for two masks of equal length layer_masks returns two masks of that
\* length that are disjoint, whose OR is the match mask, the quoted one being
\* match AND quote and the unquoted one match AND NOT quote.
C2_LayersPartitionTheMatch ==
    (pc # "layer_masks" /\ Len(s_match_mask) = Len(quote_mask)) =>
        /\ pc = "highlight_sample"
        /\ Len(matches) = Len(s_match_mask)
        /\ Len(quotes) = Len(s_match_mask)
        /\ \A i \in DOMAIN s_match_mask :
               /\ ~(matches[i] /\ quotes[i])
               /\ (matches[i] \/ quotes[i]) <=> s_match_mask[i]
               /\ quotes[i] <=> (s_match_mask[i] /\ quote_mask[i])
               /\ matches[i] <=> (s_match_mask[i] /\ ~quote_mask[i])

\* A match mask split into a quoted and an unquoted part, both non-empty.
C2_Witness ==
    /\ pc = "highlight_sample"
    /\ Len(s_match_mask) = 3
    /\ Len(quote_mask) = 3
    /\ CountTrue(matches) > 0
    /\ CountTrue(quotes) > 0
    /\ CountTrue(s_match_mask) < 3

\* C5: layer_masks returns masks only for a match mask and a quote mask of
\* the same length (for different lengths it raises), so format_text goes on
\* to highlight only with a quote mask that has one entry per sample token.
C5_MismatchedMasksRaise ==
    pc \in {"highlight_sample", "highlight_quotes", "return"} =>
        Len(quote_mask) = Len(s_match_mask)

\* The comparison keys of the tokens of a text.
KeysOf(text) ==
    [i \in DOMAIN to_list(process_text(text)) |->
        comparison_key(to_list(process_text(text))[i])]

\* Some frame of the sample's keys equals some frame of the reference's.
SharedFrameExists ==
    \E i \in 1..(Len(KeysOf(s_in)) - frame + 1) :
        \E j \in 1..(Len(KeysOf(r_in)) - frame + 1) :
            SameFrame(KeysOf(s_in), i, KeysOf(r_in), j, frame)

\* C6: without a shared frame format_text returns (None, None) and nothing
\* else; it returns two strings only when a shared frame exists; the
\* reference mask has a true entry exactly when the sample mask has one.
C6_NoneExactlyWithoutSharedFrame ==
    /\ ~SharedFrameExists =>
           \/ pc \in {"tokenize", "intern", "search_arrays"}
           \/ pc = "test" /\ \A t \in DOMAIN r_match_mask : ~r_match_mask[t]
           \/ pc = "done" /\ ret = FormatNone
    /\ (pc = "done" /\ ~ret.none) => SharedFrameExists
    /\ (pc = "done" /\ ret.none) => ~SharedFrameExists
    /\ pc \notin {"tokenize", "intern", "search_arrays"} =>
           ((\E t \in DOMAIN r_match_mask : r_match_mask[t])
                <=> (\E t \in DOMAIN s_match_mask : s_match_mask[t]))

\* Two annotated strings returned for a shared frame of two tokens.
C6_Witness ==
    /\ pc = "done"
    /\ ~ret.none
    /\ frame = 2
    /\ SharedFrameExists
    /\ Len(ret.s_out) > Len(s_in)

RunStart(mask, t) == mask[t] /\ (t = 1 \/ ~mask[t - 1])
RunStop(mask, t) == mask[t] /\ (t = Len(mask) \/ ~mask[t + 1])

\* The list the claim describes: a start marker before the first token of
\* each maximal run, a stop marker after its last, every other token as is.
Annotated(mask, text, color) ==
    [t \in DOMAIN text |->
        (IF RunStart(mask, t) THEN get_color(color).start ELSE <<>>)
            \o text[t]
            \o (IF RunStop(mask, t) THEN get_color(color).stop ELSE <<>>)]

\* C7: a call of highlight_text with a mask of the list's length leaves a
\* list of the same length in which the first token of each maximal run has
\* one start marker prepended, the last one stop marker appended, and every
\* other token is as it was.
C7_MarkersAtRunEnds ==
    [][/\ pc = "highlight_sample" =>
              /\ pc' = "highlight_quotes"
              /\ s_tokens' = Annotated(matches, s_tokens, colors.sample)
       /\ pc = "highlight_quotes" =>
              /\ pc' = "return"
              /\ s_tokens' = Annotated(quotes, s_tokens, colors.quote)]_vars

\* Two runs of length one, at the first and at the last token.
C7_Witness ==
    /\ pc = "highlight_quotes"
    /\ matches = <<TRUE, FALSE, TRUE>>
    /\ s_tokens[1] = get_color(colors.sample).start \o <<"a", " ">> \o get_color(colors.sample).stop
    /\ s_tokens[2] = <<"b">>
    /\ s_tokens[3] = get_color(colors.sample).start \o <<"b">> \o get_color(colors.sample).stop

\* C10: a call of highlight_text leaves the list the caller passed in as it
\* was before the call.
C10_CallerListUnchanged ==
    [][(pc \in {"highlight_sample", "highlight_quotes"}) => (s_tokens' = s_tokens)]_vars

\* C9: the tokens to_list returns, concatenated in order, are the text; the
\* empty text gives the empty list.
C9_TokensReconstructText ==
    pc # "to_list" =>
        /\ join(s_tokens) = s_in
        /\ s_in = <<>> => s_tokens = <<>>

\* An odd number of fragments whose last one has no word character: it is
\* joined to the pair before it.
C9_Witness ==
    /\ pc = "match_quotes"
    /\ s_in = <<"a", " ", "a", " ", ".">>
    /\ s_tokens = <<<<"a", " ">>, <<"a", " ", ".">>>>

\* C4: the mask match_quotes returns has one entry per token of the sample.
C4_QuoteMaskHasSampleLength ==
    (pc = "done" /\ ret.error = "") => Len(quote_mask) = Len(s_tokens)

=============================================================================
